---- MODULE Spec2Model ----
(***************************************************************************)
(* Model of the metrics sampling loop (collectMetrics), the ownership      *)
(* resolver (getDeploymentForPod) and the deployment aggregation engine    *)
(* (aggregateDeploymentMetrics) of k8s-performance-analyzer, src/main.go.  *)
(***************************************************************************)
EXTENDS Integers, Sequences, FiniteSets, TLC

\* ------------------------------------------------------------------ bounds

\* Largest number of sampling iterations a chosen collection period yields.
MaxIterations == 2
\* Largest number of pods in the pod list handed to the aggregation.
MaxPods == 2
\* Largest number of owner references of a pod whose ownership is resolved.
MaxOwners == 2

\* ------------------------------------------------------- program constants

\* interval := 30 * time.Second
Interval == 30

\* ---------------------------------------------------------------- universe

Namespaces == {"ns1", "ns2"}
SampledPodNames == {"p1"}
ContainerNames == {"c1", "c2"}
NodeNames == {"n1"}

\* Usage readings (milli-cores, bytes) a single sample can carry: idle, and two
\* readings neither of which dominates the other.
Usages == {[cpu |-> 0, mem |-> 0], [cpu |-> 1, mem |-> 2], [cpu |-> 2, mem |-> 1]}

\* Collection periods, in seconds: negative, zero, below one interval, and up
\* to MaxIterations whole intervals with and without a remainder.
Periods == {h * (Interval \div 2) : h \in -3..(2 * MaxIterations)}

Nil == "nil"
EmptyMap == [x \in {} |-> 0]

Put(f, k, v) == [x \in (DOMAIN f) \cup {k} |-> IF x = k THEN v ELSE f[x]]

\* ------------------------------------------------------------ metrics source

\* One container of a PodMetrics item: name, Usage.Cpu().MilliValue(),
\* Usage.Memory().Value().
ContainerSamples ==
    {[Name |-> n, cpu |-> u.cpu, mem |-> u.mem] : n \in ContainerNames, u \in Usages}

\* The Containers list of one PodMetrics item (container names are unique
\* within a pod): none yet, the main container alone, or main and sidecar.
ContainerLists ==
    {<<>>} \cup {<<c>> : c \in {x \in ContainerSamples : x.Name = "c1"}}
           \cup {<<[Name |-> "c1", cpu |-> 1, mem |-> 2], [Name |-> "c2", cpu |-> 2, mem |-> 1]>>}

PodItems == [Name : SampledPodNames, Namespace : Namespaces, Containers : ContainerLists]

\* What PodMetricses("").List can return on success: pods of all namespaces,
\* each (namespace, name) at most once.
PodResponses ==
    {<<>>} \cup {<<p>> : p \in PodItems}
           \cup {<<p, q>> : p \in {x \in PodItems : x.Namespace = "ns1"},
                            q \in {x \in PodItems : x.Namespace = "ns2"}}

NodeItems == {[Name |-> n, cpu |-> u.cpu, mem |-> u.mem] : n \in NodeNames, u \in Usages}

\* What NodeMetricses().List can return on success.
NodeResponses == {<<>>} \cup {<<n>> : n \in NodeItems}

\* ------------------------------------------------------------------- state

VARIABLES
    pc,          \* position in collectMetrics: "probe", "loop", "returned"
    period,      \* the period argument, in seconds
    probeErr,    \* result of checkMetricsServer: "pending", "nil", "err"
    iterations,  \* iterations := int(period / interval)
    i,           \* loop counter
    metrics,     \* the MetricsData being accumulated
    err,         \* err of the latest fetch of the loop: "nil", "pods", "nodes"
    ret,         \* what collectMetrics returned: metrics is the *MetricsData as a
                 \* set, {} for nil and {m} for a pointer to m
    podFetches,  \* PodMetricses("").List calls issued by the loop
    nodeFetches, \* NodeMetricses().List calls issued by the loop
    sleeps,      \* time.Sleep(interval) calls made
    seen,        \* per identity, the largest reading fetched successfully so far
    pods,        \* the pods argument of aggregateDeploymentMetrics
    replicaSets, \* what ReplicaSets(namespace).Get(name) answers
    processed,   \* number of pods of the list the aggregation has gone through
    deploymentMetrics, \* the map aggregateDeploymentMetrics builds
    resolved     \* what getDeploymentForPod returned for each pod gone through

vars == <<pc, period, probeErr, iterations, i, metrics, err, ret,
          podFetches, nodeFetches, sleeps, seen,
          pods, replicaSets, processed, deploymentMetrics, resolved>>

\* What collectMetrics alone reads and writes, and what the aggregation does.
samplerVars == <<period, probeErr, iterations, i, err, ret,
                 podFetches, nodeFetches, sleeps, seen>>
aggregationVars == <<pods, replicaSets, processed, deploymentMetrics, resolved>>

\* ---------------------------------------------------------- collectMetrics

\* Go's integer division truncates toward zero.
GoDiv(a, b) == IF a >= 0 THEN a \div b ELSE -((-a) \div b)

\* The iteration count rounded up to cover the whole period.
IterationsRoundedUp(p) == GoDiv(p + Interval - 1, Interval)

\* iterations := int(period / interval)
Iterations(p) == GoDiv(p, Interval)

NewMetricsData == [PodMetrics |-> EmptyMap, NodeMetrics |-> EmptyMap]

\* if value > max { max = value }
FoldMax(max, value) == IF value > max THEN value ELSE max

\* Body of the loop over pod.Containers for one container.
UpdateContainer(containers, c) ==
    LET cur == IF c.Name \in DOMAIN containers
               THEN containers[c.Name]
               ELSE [MaxCPU |-> 0, MaxMemory |-> 0]
    IN  Put(containers, c.Name,
            [MaxCPU |-> FoldMax(cur.MaxCPU, c.cpu),
             MaxMemory |-> FoldMax(cur.MaxMemory, c.mem)])

RECURSIVE FoldContainers(_, _)
FoldContainers(containers, cs) ==
    IF cs = <<>> THEN containers
    ELSE FoldContainers(UpdateContainer(containers, Head(cs)), Tail(cs))

\* Body of the loop over podMetrics.Items for one pod: the entry is keyed by
\* pod.Name alone and created before the containers are visited.
UpdatePod(pm, pod) ==
    LET entry == IF pod.Name \in DOMAIN pm
                 THEN pm[pod.Name]
                 ELSE [Namespace |-> pod.Namespace, Containers |-> EmptyMap]
    IN  Put(pm, pod.Name,
            [Namespace |-> entry.Namespace,
             Containers |-> FoldContainers(entry.Containers, pod.Containers)])

RECURSIVE FoldPods(_, _)
FoldPods(pm, items) ==
    IF items = <<>> THEN pm
    ELSE FoldPods(UpdatePod(pm, Head(items)), Tail(items))

\* Body of the loop over nodeMetrics.Items for one node.
UpdateNode(nm, node) ==
    LET cur == IF node.Name \in DOMAIN nm
               THEN nm[node.Name]
               ELSE [MaxCPU |-> 0, MaxMemory |-> 0]
    IN  Put(nm, node.Name,
            [MaxCPU |-> FoldMax(cur.MaxCPU, node.cpu),
             MaxMemory |-> FoldMax(cur.MaxMemory, node.mem)])

RECURSIVE FoldNodes(_, _)
FoldNodes(nm, items) ==
    IF items = <<>> THEN nm
    ELSE FoldNodes(UpdateNode(nm, Head(items)), Tail(items))

\* The identities a successful fetch delivers readings for, and the largest
\* reading it delivers for each: pods by (namespace, name, container), nodes by
\* name.
PodIdentities(items) ==
    UNION {{<<items[k].Namespace, items[k].Name, items[k].Containers[j].Name>> :
                j \in DOMAIN items[k].Containers} : k \in DOMAIN items}

PodReadings(items, id) ==
    UNION {{items[k].Containers[j] : j \in {x \in DOMAIN items[k].Containers :
                id = <<items[k].Namespace, items[k].Name, items[k].Containers[x].Name>>}} :
           k \in DOMAIN items}

NodeIdentities(items) == {<<"", items[k].Name, "">> : k \in DOMAIN items}

NodeReadings(items, id) == {items[k] : k \in {x \in DOMAIN items : id = <<"", items[x].Name, "">>}}

SetMax(S) == CHOOSE m \in S : \A x \in S : x <= m

\* seen after the readings rs of identity id are added to it.
Observe(s, id, rs) ==
    LET old == IF id \in DOMAIN s THEN {s[id]} ELSE {}
    IN  Put(s, id, [cpu |-> SetMax({r.cpu : r \in rs \cup old}),
                    mem |-> SetMax({r.mem : r \in rs \cup old})])

ObservePods(s, items) ==
    [id \in (DOMAIN s) \cup PodIdentities(items) |->
        IF id \in PodIdentities(items)
        THEN Observe(s, id, PodReadings(items, id))[id] ELSE s[id]]

ObserveNodes(s, items) ==
    [id \in (DOMAIN s) \cup NodeIdentities(items) |->
        IF id \in NodeIdentities(items)
        THEN Observe(s, id, NodeReadings(items, id))[id] ELSE s[id]]

Init ==
    /\ pc = "probe"
    /\ period \in Periods
    /\ probeErr = "pending"
    /\ iterations = 0
    /\ i = 0
    /\ metrics = NewMetricsData
    /\ err = "nil"
    /\ ret = [metrics |-> {}, err |-> "pending"]
    /\ podFetches = 0
    /\ nodeFetches = 0
    /\ sleeps = 0
    /\ seen = EmptyMap
    /\ pods = <<>>
    /\ replicaSets = EmptyMap
    /\ processed = 0
    /\ deploymentMetrics = EmptyMap
    /\ resolved = <<>>


\* A collectMetrics that logs the probe's error and samples regardless.
ProbeFailsIgnored ==
    /\ pc = "probe"
    /\ probeErr' = "err"
    /\ iterations' = Iterations(period)
    /\ i' = 0
    /\ pc' = "loop"
    /\ UNCHANGED <<period, metrics, err, ret, podFetches, nodeFetches, sleeps, seen>>
    /\ UNCHANGED aggregationVars

\* checkMetricsServer returns an error: return nil, err.
ProbeFails ==
    /\ pc = "probe"
    /\ probeErr' = "err"
    /\ ret' = [metrics |-> {}, err |-> "metrics unavailable"]
    /\ pc' = "returned"
    /\ UNCHANGED <<period, iterations, i, metrics, err, podFetches, nodeFetches,
                   sleeps, seen>>
    /\ UNCHANGED aggregationVars

\* checkMetricsServer returns nil: interval and iterations are computed.
ProbeSucceeds ==
    /\ pc = "probe"
    /\ probeErr' = "nil"
    /\ iterations' = Iterations(period)
    /\ i' = 0
    /\ pc' = "loop"
    /\ UNCHANGED <<period, metrics, err, ret, podFetches, nodeFetches, sleeps, seen>>
    /\ UNCHANGED aggregationVars

\* An iteration whose failed pod fetch ends the collection with the error.
IterPodFetchAborts ==
    /\ pc = "loop"
    /\ i < iterations
    /\ podFetches' = podFetches + 1
    /\ err' = "pods"
    /\ ret' = [metrics |-> {}, err |-> "pods"]
    /\ pc' = "returned"
    /\ UNCHANGED <<period, probeErr, iterations, i, metrics, nodeFetches, sleeps, seen>>
    /\ UNCHANGED aggregationVars

\* One iteration whose pod fetch fails: warning, continue.
IterPodFetchFails ==
    /\ pc = "loop"
    /\ i < iterations
    /\ podFetches' = podFetches + 1
    /\ err' = "pods"
    /\ i' = i + 1
    /\ UNCHANGED <<pc, period, probeErr, iterations, metrics, ret, nodeFetches,
                   sleeps, seen>>
    /\ UNCHANGED aggregationVars

\* One iteration whose pod fetch succeeds and whose node fetch fails: the pod
\* items are folded in, then warning, continue.
IterNodeFetchFails ==
    /\ pc = "loop"
    /\ i < iterations
    /\ \E podMetrics \in PodResponses :
        /\ metrics' = [metrics EXCEPT !.PodMetrics = FoldPods(@, podMetrics)]
        /\ seen' = ObservePods(seen, podMetrics)
    /\ podFetches' = podFetches + 1
    /\ nodeFetches' = nodeFetches + 1
    /\ err' = "nodes"
    /\ i' = i + 1
    /\ UNCHANGED <<pc, period, probeErr, iterations, ret, sleeps>>
    /\ UNCHANGED aggregationVars

\* One iteration whose two fetches succeed: fold pods, fold nodes, sleep.
IterSucceeds ==
    /\ pc = "loop"
    /\ i < iterations
    /\ \E podMetrics \in PodResponses, nodeMetrics \in NodeResponses :
        /\ metrics' = [PodMetrics |-> FoldPods(metrics.PodMetrics, podMetrics),
                       NodeMetrics |-> FoldNodes(metrics.NodeMetrics, nodeMetrics)]
        /\ seen' = ObserveNodes(ObservePods(seen, podMetrics), nodeMetrics)
    /\ podFetches' = podFetches + 1
    /\ nodeFetches' = nodeFetches + 1
    /\ sleeps' = sleeps + 1
    /\ err' = "nil"
    /\ i' = i + 1
    /\ UNCHANGED <<pc, period, probeErr, iterations, ret>>
    /\ UNCHANGED aggregationVars

\* The loop condition i < iterations is false: return metrics, nil.
Return ==
    /\ pc = "loop"
    /\ ~(i < iterations)
    /\ ret' = [metrics |-> {metrics}, err |-> Nil]
    /\ pc' = "returned"
    /\ UNCHANGED <<period, probeErr, iterations, i, metrics, err, podFetches,
                   nodeFetches, sleeps, seen>>
    /\ UNCHANGED aggregationVars

Next ==
    \/ ProbeFails
    \/ ProbeSucceeds
    \/ IterPodFetchFails
    \/ IterNodeFetchFails
    \/ IterSucceeds
    \/ Return

Spec == Init /\ [][Next]_vars


\* ------------------------------------------------------ getDeploymentForPod

OwnerRef(kind, name) == [Kind |-> kind, Name |-> name]

\* The first owner reference of kind "Deployment" in a ReplicaSet's
\* OwnerReferences, as a set: {} when there is none.
RECURSIVE DeploymentOwner(_)
DeploymentOwner(rsOwners) ==
    IF rsOwners = <<>> THEN {}
    ELSE IF Head(rsOwners).Kind = "Deployment" THEN {Head(rsOwners).Name}
    ELSE DeploymentOwner(Tail(rsOwners))

\* The scan of owners that gives up, with the lookup's error, at the first
\* ReplicaSet that cannot be fetched.
RECURSIVE ScanOwnersAborting(_, _, _)
ScanOwnersAborting(store, namespace, owners) ==
    IF owners = <<>> THEN [name |-> "", err |-> Nil]
    ELSE LET owner == Head(owners)
             rs == store[<<namespace, owner.Name>>]
         IN  IF owner.Kind # "ReplicaSet"
             THEN ScanOwnersAborting(store, namespace, Tail(owners))
             ELSE IF ~rs.found
             THEN [name |-> "", err |-> "not found"]
             ELSE IF DeploymentOwner(rs.OwnerReferences) # {}
             THEN [name |-> CHOOSE d \in DeploymentOwner(rs.OwnerReferences) : TRUE,
                   err |-> Nil]
             ELSE ScanOwnersAborting(store, namespace, Tail(owners))

\* The loop over pod.OwnerReferences, from the reference at the head of owners.
RECURSIVE ScanOwners(_, _, _)
ScanOwners(store, namespace, owners) ==
    IF owners = <<>> THEN [name |-> "", err |-> Nil]
    ELSE LET owner == Head(owners)
             rs == store[<<namespace, owner.Name>>]
         IN  IF owner.Kind # "ReplicaSet"
             THEN ScanOwners(store, namespace, Tail(owners))
             ELSE IF ~rs.found
             THEN ScanOwners(store, namespace, Tail(owners))
             ELSE IF DeploymentOwner(rs.OwnerReferences) # {}
             THEN [name |-> CHOOSE d \in DeploymentOwner(rs.OwnerReferences) : TRUE,
                   err |-> Nil]
             ELSE ScanOwners(store, namespace, Tail(owners))

\* A resolution that a failed ReplicaSet lookup aborts.
GetDeploymentForPodAborting(store, pod) ==
    ScanOwnersAborting(store, pod.Namespace, pod.OwnerReferences)

\* getDeploymentForPod(clientset, pod): the deployment name and the error.
GetDeploymentForPod(store, pod) == ScanOwners(store, pod.Namespace, pod.OwnerReferences)

\* ----------------------------------------------- aggregateDeploymentMetrics

\* An aggregation that keeps a pod whatever its resolution.
NeverSkipped(res) == FALSE

\* if err != nil { continue }; if deploymentName == "" { continue }
Skipped(res) == res.err # Nil \/ res.name = ""

\* key := fmt.Sprintf("%s/%s", pod.Namespace, deploymentName)
Key(namespace, deploymentName) == namespace \o "/" \o deploymentName

NewDeploymentMetrics(deploymentName, namespace) ==
    [Name |-> deploymentName, Namespace |-> namespace, Pods |-> <<>>,
     MaxCPU |-> 0, MaxMemory |-> 0, AvgCPU |-> 0, AvgMemory |-> 0,
     TotalPods |-> 0, PodsWithoutLimits |-> 0]

\* Quantity.IsZero(); a limit that is not set reads as the zero quantity.
IsZero(quantity) == quantity = 0

\* A pod counted as limited as soon as one of the two limits of each container
\* is set.
RECURSIVE HasLimitsEitherSet(_)
HasLimitsEitherSet(containers) ==
    IF containers = <<>> THEN TRUE
    ELSE IF IsZero(Head(containers).cpuLimit) /\ IsZero(Head(containers).memLimit)
    THEN FALSE
    ELSE HasLimitsEitherSet(Tail(containers))

\* hasLimits after the loop over pod.Spec.Containers.
RECURSIVE HasLimits(_)
HasLimits(containers) ==
    IF containers = <<>> THEN TRUE
    ELSE IF IsZero(Head(containers).cpuLimit) \/ IsZero(Head(containers).memLimit)
    THEN FALSE
    ELSE HasLimits(Tail(containers))

RECURSIVE SumOver(_, _)
SumOver(f, S) ==
    IF S = {} THEN 0
    ELSE LET x == CHOOSE y \in S : TRUE IN f[x] + SumOver(f, S \ {x})

\* dm after the loop over podMetrics.Containers and the two divisions;
\* panic tells that the divisor len(podMetrics.Containers) was zero, which
\* stops the program with a run-time panic before AvgCPU is assigned.
FoldPodMetrics(dm, containers) ==
    LET names == DOMAIN containers
        cpus == [c \in names |-> containers[c].MaxCPU]
        mems == [c \in names |-> containers[c].MaxMemory]
        totalCPU == SumOver(cpus, names)
        totalMemory == SumOver(mems, names)
        maxed == [dm EXCEPT
                    !.MaxCPU = SetMax({@} \cup {cpus[c] : c \in names}),
                    !.MaxMemory = SetMax({@} \cup {mems[c] : c \in names})]
    IN  IF Cardinality(names) = 0
        THEN [dm |-> maxed, panic |-> TRUE]
        ELSE [dm |-> [maxed EXCEPT
                        !.AvgCPU = GoDiv(totalCPU, Cardinality(names)),
                        !.AvgMemory = GoDiv(totalMemory, Cardinality(names))],
              panic |-> FALSE]

\* The body of the loop over pods for one pod: the map afterwards, the
\* resolution, and whether the body panicked.
AggregatePod(store, snapshot, dms, pod) ==
    LET res == GetDeploymentForPod(store, pod)
        key == Key(pod.Namespace, res.name)
        dm0 == IF key \in DOMAIN dms THEN dms[key]
               ELSE NewDeploymentMetrics(res.name, pod.Namespace)
        dm1 == [dm0 EXCEPT
                  !.Pods = Append(@, pod.Name),
                  !.TotalPods = @ + 1,
                  !.PodsWithoutLimits = IF HasLimits(pod.Containers) THEN @ ELSE @ + 1]
        folded == IF pod.Name \in DOMAIN snapshot.PodMetrics
                  THEN FoldPodMetrics(dm1, snapshot.PodMetrics[pod.Name].Containers)
                  ELSE [dm |-> dm1, panic |-> FALSE]
    IN  IF Skipped(res)
        THEN [dms |-> dms, res |-> res, panic |-> FALSE]
        ELSE [dms |-> Put(dms, key, folded.dm), res |-> res, panic |-> folded.panic]

\* aggregateDeploymentMetrics on a whole pod list, from the map dms.
RECURSIVE AggregateFrom(_, _, _, _)
AggregateFrom(store, snapshot, dms, list) ==
    IF list = <<>> THEN [dms |-> dms, panic |-> FALSE]
    ELSE LET step == AggregatePod(store, snapshot, dms, Head(list))
         IN  IF step.panic THEN [dms |-> step.dms, panic |-> TRUE]
             ELSE AggregateFrom(store, snapshot, step.dms, Tail(list))

\* One pass of the loop over pods.
AggregateNextPod ==
    /\ pc = "aggregate"
    /\ processed < Len(pods)
    /\ LET step == AggregatePod(replicaSets, metrics, deploymentMetrics, pods[processed + 1])
       IN  /\ deploymentMetrics' = step.dms
           /\ resolved' = Append(resolved, step.res)
           /\ IF step.panic
              THEN pc' = "panic" /\ processed' = processed
              ELSE pc' = "aggregate" /\ processed' = processed + 1
    /\ UNCHANGED <<metrics, pods, replicaSets>>
    /\ UNCHANGED samplerVars

\* The pod list is exhausted: return deploymentMetrics.
AggregateReturn ==
    /\ pc = "aggregate"
    /\ processed = Len(pods)
    /\ pc' = "aggregated"
    /\ UNCHANGED <<metrics, pods, replicaSets, processed, deploymentMetrics, resolved>>
    /\ UNCHANGED samplerVars

AggregateNext == AggregateNextPod \/ AggregateReturn

\* --------------------------------------------- inputs of the aggregation

PodNames == <<"p1", "p2", "p3", "p4">>
RSNames == {"rs1", "rs2"}

Limits(cpu, mem) == [cpuLimit |-> cpu, memLimit |-> mem]

\* pod.Spec.Containers, by the limits of each container: no container, one
\* container with both limits, one without a CPU limit, and a second container
\* without a memory limit.
LimitChoices ==
    {<<>>, <<Limits(500, 64)>>, <<Limits(0, 64)>>, <<Limits(500, 64), Limits(500, 0)>>}

\* A cluster where, in every namespace, rs1 belongs to deployment web and rs2
\* to deployment api.
ClusterReplicaSets ==
    [key \in Namespaces \X RSNames |->
        [found |-> TRUE,
         OwnerReferences |-> <<OwnerRef("Deployment", IF key[2] = "rs1" THEN "web" ELSE "api")>>]]

\* Owner references of the pods of the aggregation runs: a bare pod and a pod
\* of either deployment.
AggregationOwnerChoices ==
    {<<>>, <<OwnerRef("ReplicaSet", "rs1")>>, <<OwnerRef("ReplicaSet", "rs2")>>}

\* The snapshot entry of a pod after one sample: its containers as the sampler
\* folds them in.
SnapshotEntries ==
    {[Namespace |-> "ns1", Containers |-> FoldContainers(EmptyMap, cs)] : cs \in ContainerLists}

\* Pod lists of n pods named p1..pn with the given choices per pod.
PodLists(n, namespaces, ownerChoices, limitChoices) ==
    {[j \in 1..n |-> [Name |-> PodNames[j], Namespace |-> a[j][1],
                      OwnerReferences |-> a[j][2], Containers |-> a[j][3]]] :
        a \in [1..n -> namespaces \X ownerChoices \X limitChoices]}

\* Snapshots holding one of the given entries for some of the pods p1..pn.
Snapshots(n, entries) ==
    UNION {{[PodMetrics |-> pm, NodeMetrics |-> EmptyMap] : pm \in [S -> entries]} :
            S \in SUBSET {PodNames[j] : j \in 1..n}}

SamplerIdle ==
    /\ period = 0
    /\ probeErr = "nil"
    /\ iterations = 0
    /\ i = 0
    /\ err = "nil"
    /\ ret = [metrics |-> {metrics}, err |-> Nil]
    /\ podFetches = 0
    /\ nodeFetches = 0
    /\ sleeps = 0
    /\ seen = EmptyMap

\* aggregateDeploymentMetrics is called on a snapshot and a pod list.
AggInit ==
    /\ pc = "aggregate"
    /\ \E n \in 0..MaxPods :
        /\ pods \in PodLists(n, Namespaces, AggregationOwnerChoices, LimitChoices)
        /\ metrics \in Snapshots(n, SnapshotEntries)
    /\ replicaSets = ClusterReplicaSets
    /\ processed = 0
    /\ deploymentMetrics = EmptyMap
    /\ resolved = <<>>
    /\ SamplerIdle

SpecAgg == AggInit /\ [][AggregateNext]_vars

\* A cluster where, in every namespace, rs1 belongs to deployment web and rs2
\* is a ReplicaSet created directly, owned by no Deployment.
ClusterWithBareReplicaSet ==
    [key \in Namespaces \X RSNames |->
        [found |-> TRUE,
         OwnerReferences |-> IF key[2] = "rs1" THEN <<OwnerRef("Deployment", "web")>>
                             ELSE <<>>]]

\* Owner references of the pods of the membership runs: a bare pod, a pod of a
\* Job, a pod of deployment web, a pod of the bare ReplicaSet.
MembershipOwnerChoices ==
    {<<>>, <<OwnerRef("Job", "job1")>>, <<OwnerRef("ReplicaSet", "rs1")>>,
     <<OwnerRef("ReplicaSet", "rs2")>>}

\* The entry of a pod sampled once with its main container busy.
SampledEntries ==
    {[Namespace |-> "ns1",
      Containers |-> FoldContainers(EmptyMap, <<[Name |-> "c1", cpu |-> 1, mem |-> 2]>>)]}

\* aggregateDeploymentMetrics is called on pods of every ownership and every
\* limit setting, each with or without an entry in the snapshot.
MembershipInit ==
    /\ pc = "aggregate"
    /\ \E n \in 0..MaxPods :
        /\ pods \in PodLists(n, Namespaces, MembershipOwnerChoices, LimitChoices)
        /\ metrics \in Snapshots(n, SampledEntries)
    /\ replicaSets = ClusterWithBareReplicaSet
    /\ processed = 0
    /\ deploymentMetrics = EmptyMap
    /\ resolved = <<>>
    /\ SamplerIdle

SpecMembership == MembershipInit /\ [][AggregateNext]_vars

\* Owner references a pod can carry: either ReplicaSet, or a Job.
OwnerRefs ==
    {OwnerRef("ReplicaSet", n) : n \in RSNames} \cup {OwnerRef("Job", "job1")}

RECURSIVE SeqsUpTo(_, _)
SeqsUpTo(S, n) ==
    IF n = 0 THEN {<<>>}
    ELSE LET shorter == SeqsUpTo(S, n - 1)
         IN  shorter \cup {Append(q, x) : q \in shorter, x \in S}

\* What a ReplicaSet lookup can answer: not found, or the ReplicaSet with no
\* owner, a Deployment owner, or another owner before or instead of it.
ReplicaSetAnswers ==
    {[found |-> FALSE, OwnerReferences |-> <<>>]} \cup
    {[found |-> TRUE, OwnerReferences |-> o] :
        o \in {<<>>, <<OwnerRef("Deployment", "web")>>, <<OwnerRef("Deployment", "api")>>,
               <<OwnerRef("Rollout", "canary")>>,
               <<OwnerRef("Rollout", "canary"), OwnerRef("Deployment", "web")>>}}

\* aggregateDeploymentMetrics is called on one pod with any owner references,
\* in a cluster whose ReplicaSet lookups answer anything.
OwnersInit ==
    /\ pc = "aggregate"
    /\ pods \in PodLists(1, Namespaces, SeqsUpTo(OwnerRefs, MaxOwners), {<<Limits(500, 64)>>})
    /\ metrics \in Snapshots(1, SampledEntries)
    /\ replicaSets \in [Namespaces \X RSNames -> ReplicaSetAnswers]
    /\ processed = 0
    /\ deploymentMetrics = EmptyMap
    /\ resolved = <<>>
    /\ SamplerIdle

SpecOwners == OwnersInit /\ [][AggregateNext]_vars

\* ------------------------------------------------------------------ claims

\* An iteration of the sampling loop has just run.
IterationStep == pc = "loop" /\ i' = i + 1

\* C1 (as stated): every container entry of the snapshot, read as the pod
\* (entry namespace, key name), and every node entry, holds the largest CPU and
\* memory readings fetched successfully so far for that same identity.
C1_StoredMaxIsTrueMax ==
    /\ \A name \in DOMAIN metrics.PodMetrics :
         \A c \in DOMAIN metrics.PodMetrics[name].Containers :
            LET id == <<metrics.PodMetrics[name].Namespace, name, c>>
                cm == metrics.PodMetrics[name].Containers[c]
            IN  /\ id \in DOMAIN seen
                /\ cm.MaxCPU = seen[id].cpu
                /\ cm.MaxMemory = seen[id].mem
    /\ \A n \in DOMAIN metrics.NodeMetrics :
            /\ <<"", n, "">> \in DOMAIN seen
            /\ metrics.NodeMetrics[n].MaxCPU = seen[<<"", n, "">>].cpu
            /\ metrics.NodeMetrics[n].MaxMemory = seen[<<"", n, "">>].mem

\* C5 (as stated): an iteration whose pod fetch or node fetch fails leaves the
\* whole snapshot unchanged and the loop running.
C5_FailedIterationChangesNothing ==
    [][(IterationStep /\ err' \in {"pods", "nodes"})
          => (metrics' = metrics /\ pc' = "loop")]_vars

\* C5 (amended): an iteration whose pod fetch fails leaves the whole snapshot
\* unchanged; one whose node fetch fails leaves the node entries unchanged
\* (the pod readings fetched before it stay folded in); either way the loop
\* goes on, and a collection whose probe succeeded returns no error after one
\* pod fetch per scheduled iteration.
C5_FailedFetchIsSkipped ==
    /\ [][(IterationStep /\ err' = "pods") => metrics' = metrics]_vars
    /\ [][(IterationStep /\ err' = "nodes")
            => metrics'.NodeMetrics = metrics.NodeMetrics]_vars
    /\ [][(IterationStep /\ err' \in {"pods", "nodes"})
            => (pc' = "loop" /\ iterations' = iterations /\ ret' = ret)]_vars
    /\ []((pc = "returned" /\ probeErr = "nil")
            => (ret.err = Nil /\ ret.metrics = {metrics}
                /\ podFetches = (IF iterations > 0 THEN iterations ELSE 0)))

\* A pod fetch failed, a node fetch failed after readings had been folded in,
\* and the collection still ran to its end.
C5_Witness ==
    /\ pc = "returned"
    /\ ret.err = Nil
    /\ nodeFetches < podFetches
    /\ sleeps < nodeFetches
    /\ DOMAIN metrics.PodMetrics # {}

\* C6 (as stated): with period < interval nothing is fetched and the returned
\* snapshot is non-nil with both maps empty.
C6_ShortWindowEmptySnapshot ==
    (pc = "returned" /\ period < Interval)
        => /\ podFetches = 0 /\ nodeFetches = 0
           /\ ret.metrics # {}
           /\ \A m \in ret.metrics : DOMAIN m.PodMetrics = {} /\ DOMAIN m.NodeMetrics = {}

\* C6 (amended): with period < interval nothing is ever fetched, and if the
\* probe succeeded the returned snapshot is non-nil with both maps empty.
C6_ShortWindowAfterProbe ==
    period < Interval
        => /\ podFetches = 0 /\ nodeFetches = 0 /\ i = 0
           /\ (pc = "returned" /\ probeErr = "nil")
                => /\ ret.err = Nil
                   /\ ret.metrics # {}
                   /\ \A m \in ret.metrics :
                        DOMAIN m.PodMetrics = {} /\ DOMAIN m.NodeMetrics = {}

\* A collection over a positive period shorter than the interval has returned
\* after a successful probe.
C6_Witness ==
    pc = "returned" /\ probeErr = "nil" /\ period > 0 /\ period < Interval

\* C7: once the probe has failed, collectMetrics has returned nil with the
\* metrics-unavailable error and no fetch of the loop was issued.
C7_ProbeFailureFailsFast ==
    probeErr = "err"
        => /\ pc = "returned"
           /\ ret = [metrics |-> {}, err |-> "metrics unavailable"]
           /\ podFetches = 0 /\ nodeFetches = 0 /\ sleeps = 0 /\ i = 0
           /\ metrics = NewMetricsData

\* The probe failed for a period that schedules at least one iteration.
C7_Witness == probeErr = "err" /\ pc = "returned" /\ period >= Interval


\* C11 (as stated): every sampling iteration, failed fetches included, is
\* followed by one suspension of an interval, so the suspensions made equal the
\* iterations run, and a collection whose probe succeeded returns after
\* floor(period / interval) iterations (none for a period below one interval).
C11_SleepAfterEveryIteration ==
    /\ pc \in {"loop", "returned"} => sleeps = i
    /\ (pc = "returned" /\ probeErr = "nil")
         => i = (IF period >= Interval THEN period \div Interval ELSE 0)

\* ------------------------------------------------- claims on the aggregation

Range(q) == {q[j] : j \in DOMAIN q}

\* Pod j of the list was attributed to the aggregate at key.
MemberOf(j, key) ==
    resolved[j].name # "" /\ key = pods[j].Namespace \o "/" \o resolved[j].name

\* The (pod, container) pairs the snapshot holds for the members of key.
ObservedContainers(key) ==
    UNION {{<<j, c>> : c \in DOMAIN metrics.PodMetrics[pods[j].Name].Containers} :
            j \in {x \in 1..processed :
                    MemberOf(x, key) /\ pods[x].Name \in DOMAIN metrics.PodMetrics}}

ObservedCPU(jc) == metrics.PodMetrics[pods[jc[1]].Name].Containers[jc[2]].MaxCPU
ObservedMemory(jc) == metrics.PodMetrics[pods[jc[1]].Name].Containers[jc[2]].MaxMemory

\* C2 (as stated): in the returned map, each deployment's avgCPU and avgMemory
\* are the integer quotient of the sum of the container maxima over all
\* containers observed for all its member pods by the number of those
\* containers.
C2_AverageOverAllContainers ==
    pc = "aggregated" =>
        \A key \in DOMAIN deploymentMetrics :
            LET observed == ObservedContainers(key)
                cpus == [jc \in observed |-> ObservedCPU(jc)]
                mems == [jc \in observed |-> ObservedMemory(jc)]
            IN  observed # {} =>
                  /\ deploymentMetrics[key].AvgCPU
                        = SumOver(cpus, observed) \div Cardinality(observed)
                  /\ deploymentMetrics[key].AvgMemory
                        = SumOver(mems, observed) \div Cardinality(observed)

\* The averages of the aggregate at key, zero while it does not exist.
Averages(dms, key) ==
    IF key \in DOMAIN dms THEN <<dms[key].AvgCPU, dms[key].AvgMemory>> ELSE <<0, 0>>

\* C3 (as stated): folding in a member pod whose snapshot entry has zero
\* containers completes without a division by zero and leaves the averages of
\* its deployment as they were.
C3_ZeroContainersNoDivision ==
    [][(/\ pc = "aggregate"
        /\ processed < Len(pods)
        /\ ~Skipped(GetDeploymentForPod(replicaSets, pods[processed + 1]))
        /\ pods[processed + 1].Name \in DOMAIN metrics.PodMetrics
        /\ DOMAIN metrics.PodMetrics[pods[processed + 1].Name].Containers = {})
       => LET pod == pods[processed + 1]
              key == Key(pod.Namespace, GetDeploymentForPod(replicaSets, pod).name)
          IN  /\ pc' = "aggregate"
              /\ processed' = processed + 1
              /\ Averages(deploymentMetrics', key) = Averages(deploymentMetrics, key)]_vars

Orderings(list) ==
    {[j \in DOMAIN list |-> list[f[j]]] :
        f \in {g \in [DOMAIN list -> DOMAIN list] : \A a, b \in DOMAIN list : a # b => g[a] # g[b]}}

Figures(dm) ==
    <<dm.TotalPods, dm.PodsWithoutLimits, dm.MaxCPU, dm.MaxMemory, dm.AvgCPU, dm.AvgMemory>>

\* C4 (as stated): the map returned for a pod list has the keys and, per key,
\* the counts, maxima and averages of the map returned for any other ordering
\* of the same list, with the same snapshot and ownership.
C4_OrderIndependent ==
    pc = "aggregated" =>
        \A other \in Orderings(pods) :
            LET r == AggregateFrom(replicaSets, metrics, EmptyMap, other)
            IN  /\ ~r.panic
                /\ DOMAIN r.dms = DOMAIN deploymentMetrics
                /\ \A key \in DOMAIN deploymentMetrics :
                        Figures(r.dms[key]) = Figures(deploymentMetrics[key])

\* The pod has no ReplicaSet owner, or none of its ReplicaSet owners is found
\* with a Deployment owner.
Orphan(pod) ==
    \A x \in DOMAIN pod.OwnerReferences :
        pod.OwnerReferences[x].Kind = "ReplicaSet" =>
            LET rs == replicaSets[<<pod.Namespace, pod.OwnerReferences[x].Name>>]
            IN  \/ ~rs.found
                \/ \A y \in DOMAIN rs.OwnerReferences : rs.OwnerReferences[y].Kind # "Deployment"

LacksLimits(pod) ==
    \E c \in DOMAIN pod.Containers :
        pod.Containers[c].cpuLimit = 0 \/ pod.Containers[c].memLimit = 0

\* C8: a pod with no ReplicaSet owner, or whose ReplicaSet owners have no
\* Deployment owner, resolves to the empty name without error; going through
\* it changes no aggregate; it is in no Pods list and in no count; and a list of
\* such pods only yields the empty map.
C8_OrphansExcluded ==
    /\ [][(pc = "aggregate" /\ processed < Len(pods) /\ Orphan(pods[processed + 1]))
            => (deploymentMetrics' = deploymentMetrics /\ pc' = "aggregate")]_vars
    /\ [](pc \in {"aggregate", "aggregated"} =>
            LET orphans == {j \in 1..processed : Orphan(pods[j])}
                keys == DOMAIN deploymentMetrics
                totals == [key \in keys |-> deploymentMetrics[key].TotalPods]
                unlimited == [key \in keys |-> deploymentMetrics[key].PodsWithoutLimits]
            IN  /\ \A j \in orphans :
                    /\ resolved[j] = [name |-> "", err |-> Nil]
                    /\ \A key \in keys : pods[j].Name \notin Range(deploymentMetrics[key].Pods)
                /\ SumOver(totals, keys) = processed - Cardinality(orphans)
                /\ SumOver(unlimited, keys)
                     = Cardinality({j \in (1..processed) \ orphans : LacksLimits(pods[j])})
                /\ (orphans = 1..processed => keys = {}))

\* A list of a deployment's pod followed by a pod of a ReplicaSet that no
\* Deployment owns has been aggregated.
C8_Witness ==
    /\ pc = "aggregated"
    /\ Len(pods) = 2
    /\ ~Orphan(pods[1])
    /\ pods[2].OwnerReferences = <<OwnerRef("ReplicaSet", "rs2")>>
    /\ Orphan(pods[2])
    /\ LacksLimits(pods[2])
    /\ pods[2].Name \in DOMAIN metrics.PodMetrics
    /\ pods[1].Namespace = pods[2].Namespace

\* C9: for every aggregate, totalPods is the number of its member pods and
\* podsWithoutLimits the number of those with a container whose CPU limit or
\* memory limit is zero, whatever the snapshot holds for them; a pod without
\* containers is not among them.
C9_PodsWithoutLimitsCount ==
    pc \in {"aggregate", "aggregated"} =>
        \A key \in DOMAIN deploymentMetrics :
            LET members == {j \in 1..processed : MemberOf(j, key)}
            IN  /\ deploymentMetrics[key].TotalPods = Cardinality(members)
                /\ deploymentMetrics[key].PodsWithoutLimits
                     = Cardinality({j \in members : LacksLimits(pods[j])})

\* An aggregate of two pods was returned: one with a single container that has
\* a memory limit and no CPU limit and no entry in the snapshot, one with no
\* container at all; only the first is counted without limits.
C9_Witness ==
    /\ pc = "aggregated"
    /\ \E key \in DOMAIN deploymentMetrics :
        /\ deploymentMetrics[key].TotalPods = 2
        /\ deploymentMetrics[key].PodsWithoutLimits = 1
        /\ \E j \in 1..processed :
            /\ MemberOf(j, key)
            /\ pods[j].Containers = <<Limits(0, 64)>>
            /\ pods[j].Name \notin DOMAIN metrics.PodMetrics
        /\ \E j \in 1..processed : MemberOf(j, key) /\ pods[j].Containers = <<>>

\* The owner references of pod that are ReplicaSets found with a Deployment
\* owner, by position.
Resolving(pod) ==
    {x \in DOMAIN pod.OwnerReferences :
        /\ pod.OwnerReferences[x].Kind = "ReplicaSet"
        /\ LET rs == replicaSets[<<pod.Namespace, pod.OwnerReferences[x].Name>>]
           IN  rs.found /\ \E y \in DOMAIN rs.OwnerReferences :
                                rs.OwnerReferences[y].Kind = "Deployment"}

\* The name of the first Deployment owner of the first resolving reference.
ExpectedDeployment(pod) ==
    IF Resolving(pod) = {} THEN ""
    ELSE LET x == CHOOSE a \in Resolving(pod) : \A b \in Resolving(pod) : a <= b
             owners == replicaSets[<<pod.Namespace, pod.OwnerReferences[x].Name>>].OwnerReferences
             deps == {y \in DOMAIN owners : owners[y].Kind = "Deployment"}
         IN  owners[CHOOSE a \in deps : \A b \in deps : a <= b].Name

\* C10: resolution never returns an error; it returns the Deployment of the
\* first ReplicaSet reference that is fetched successfully and has a Deployment
\* owner, failed lookups before it notwithstanding, and the empty name when
\* there is none.
C10_FailedLookupSkipped ==
    \A j \in DOMAIN resolved :
        /\ resolved[j].err = Nil
        /\ resolved[j].name = ExpectedDeployment(pods[j])

\* A pod whose first ReplicaSet lookup failed was attributed to the Deployment
\* of its second ReplicaSet.
C10_Witness ==
    /\ pc = "aggregated"
    /\ Len(pods) = 1
    /\ Len(pods[1].OwnerReferences) = 2
    /\ pods[1].OwnerReferences[1].Kind = "ReplicaSet"
    /\ ~replicaSets[<<pods[1].Namespace, pods[1].OwnerReferences[1].Name>>].found
    /\ resolved[1].name = "api"
    /\ DOMAIN deploymentMetrics = {pods[1].Namespace \o "/api"}

====
